---- MODULE Spec2Model ----
(***************************************************************************)
(* Model of the service listing of edge-containers-cli:                    *)
(*   src/src/edge_containers_cli/cmds/k8s_commands.py                      *)
(* K8sCommands._get_services joins the output of four external queries    *)
(* (kubectl get deployment, kubectl get statefulset, kubectl get pods,     *)
(* helm list) into one table; K8sCommands.ps prints it once and            *)
(* K8sCommands.monitor hands it to the MonitorApp refresh loop.            *)
(*                                                                         *)
(* A polars DataFrame is a sequence of rows, a row a record whose fields   *)
(* are the columns.  A null cell is <<>> and a present cell of a nullable  *)
(* column is <<v>>.  The text a query prints is a sequence of lines, the   *)
(* empty sequence being the empty string.                                  *)
(***************************************************************************)
EXTENDS Naturals, Sequences, FiniteSets, TLC

\* Bound of the model: the number of lines the four queries print together.
MaxRows == 4

\* polars.col("deployed").str.slice(0, 19)
SliceLength == 19

Names == {"svcA", "svcB"}
Images == {"imgX", "imgY"}
Phases == {"Running", "Pending"}
Restarts == {2}
Versions == {"1.2", "2.0"}
Updated == {"2024-01-01 10:00:00.123456789 +0000 UTC"}

Null == <<>>
Some(v) == <<v>>

\* One line "name,image" of kubectl get deployment|statefulset (jsonpath_deploy_info).
WorkloadLines == {<<n, i>> : n \in Names, i \in Images}
\* One line "name,phase,restarts" of kubectl get pods (jsonpath_pod_info).
PodLines == {<<n, p, r>> : n \in Names, p \in Phases, r \in Restarts}
\* One object of the JSON array of helm list -o json.
HelmObjects ==
    [name : Names, app_version : Versions, updated : Updated, status : {"deployed"}]

SeqsUpTo(S, n) == UNION {[1..k -> S] : k \in 0..n}

\* The cluster names a resource of one kind, and a release, at most once.
UniqueFirst(lines) == \A i, j \in 1..Len(lines) : lines[i][1] = lines[j][1] => i = j
UniqueNames(objs) == \A i, j \in 1..Len(objs) : objs[i].name = objs[j].name => i = j

VARIABLES
    cluster,      \* what each of the four queries prints
    cmd,          \* the command that runs: "none", "ps", "monitor", "delete", ...
    pc,           \* position inside _get_services
    all,          \* the argument of the running _get_services call
    services_df,  \* the local services_df of the running call
    result,       \* how the last _get_services call ended
    issued,       \* the external queries the running call has issued, in order
    mon,          \* state of the monitor
    prev,         \* result of the previous poll of the monitor, if the
                  \* cluster has not changed since
    changed,      \* the cluster has changed since the last poll ended
    printed,      \* what ps printed
    schema,       \* the columns of services_df, in their order
    failed,       \* the query of the running call that failed, or "none"
    answer,       \* what the user answered to delete: "none", "yes", "no"
    service_name, \* the service delete and check_service are about
    pv_name,      \* the PV wait_pv waits for
    attempts,     \* the argument of wait_pv
    ran,          \* the commands delete, check_service or wait_pv has run
    outcome       \* how delete, check_service or wait_pv ended

\* The state of _get_services, ps and monitor, and that of the other commands.
listing ==
    <<pc, all, services_df, result, issued, mon, prev, changed, printed, schema, failed>>
simple == <<answer, service_name, pv_name, attempts, ran, outcome>>

vars == <<cluster, cmd, listing, simple>>

NoOutcome == [kind |-> "none", value |-> ""]

NoResult == [kind |-> "none", df |-> <<>>]

(***************************************************************************)
(* polars operations                                                       *)
(***************************************************************************)

\* polars.read_csv(..., has_header=False, new_columns=["name", "image"])
ReadCsvWorkload(text) ==
    [i \in 1..Len(text) |-> [name |-> text[i][1], image |-> text[i][2]]]

\* polars.read_csv(..., has_header=False, new_columns=["name", "running", "restarts"])
ReadCsvPods(text) ==
    [i \in 1..Len(text) |->
        [name |-> text[i][1], running |-> text[i][2], restarts |-> text[i][3]]]

\* polars.concat([services_df, res_df], how="diagonal")
Concat(df, res_df) == df \o res_df

\* The rows of right_df whose key equals the key of the left row, in order.
Matches(left, right_df) == SelectSeq(right_df, LAMBDA r : r.name = left.name)

\* A row of right_df without its key, every cell a present cell.
RightCells(r, cols) == [c \in cols |-> Some(r[c])]

NullCells(cols) == [c \in cols |-> Null]

\* One left row joined: a row per match, or one row of nulls.
JoinRow(left, right_df, cols) ==
    LET m == Matches(left, right_df)
    IN  IF m = <<>>
        THEN <<left @@ NullCells(cols)>>
        ELSE [i \in 1..Len(m) |-> left @@ RightCells(m[i], cols)]

RECURSIVE LeftJoin(_, _, _)
\* df.join(right_df, on="name", how="left"): the left rows in their order.
LeftJoin(df, right_df, cols) ==
    IF df = <<>>
    THEN <<>>
    ELSE JoinRow(Head(df), right_df, cols) \o LeftJoin(Tail(df), right_df, cols)

\* ReplaceRunning taking every phase for Running.
ReplaceRunningAny(cell) == cell # Null

\* polars.col("running").replace({"Running": True}, default=False)
ReplaceRunning(cell) == cell = Some("Running")

\* polars.col("restarts").fill_null(0)
FillNull(cell) == IF cell = Null THEN 0 ELSE cell[1]

\* with_columns(running.replace(...), restarts.fill_null(0))
WithPodColumns(df) ==
    [i \in 1..Len(df) |->
        [df[i] EXCEPT !.running = ReplaceRunning(@), !.restarts = FillNull(@)]]

\* with_columns(running=polars.lit(False), restarts=polars.lit(0))
WithLiteralColumns(df) ==
    [i \in 1..Len(df) |-> df[i] @@ [running |-> FALSE, restarts |-> 0]]

\* str.slice(0, 19)
StrSlice(s) == SubSeq(s, 1, IF Len(s) < SliceLength THEN Len(s) ELSE SliceLength)

\* read_json, rename app_version -> version, updated -> deployed, slice deployed
ReadHelm(objs) ==
    [i \in 1..Len(objs) |->
        [name |-> objs[i].name, version |-> objs[i].app_version,
         deployed |-> StrSlice(objs[i].updated), status |-> objs[i].status]]

Columns == {"name", "version", "running", "restarts", "deployed", "image"}

\* The list given to select: the columns of the returned table, in order.
SelectOrder == <<"name", "version", "running", "restarts", "deployed", "image">>

\* services_df.select(["name", "version", "running", "restarts", "deployed", "image"])
Select(df) == [i \in 1..Len(df) |-> [c \in Columns |-> df[i][c]]]

\* services_df.filter(polars.col("running").eq(True))
FilterRunning(df) == SelectSeq(df, LAMBDA r : r.running = TRUE)

(***************************************************************************)
(* Initial state: no command runs; the cluster holds any content within    *)
(* the bound.                                                              *)
(***************************************************************************)

NoPrint == [kind |-> "none", df |-> <<>>]

Init ==
    /\ \E d \in SeqsUpTo(WorkloadLines, MaxRows) :
       \E s \in SeqsUpTo(WorkloadLines, MaxRows - Len(d)) :
       \E p \in SeqsUpTo(PodLines, MaxRows - Len(d) - Len(s)) :
       \E h \in SeqsUpTo(HelmObjects, MaxRows - Len(d) - Len(s) - Len(p)) :
          /\ UniqueFirst(d) /\ UniqueFirst(s) /\ UniqueNames(h)
          /\ cluster = [deployment |-> d, statefulset |-> s, pods |-> p, helm |-> h]
    /\ cmd = "none"
    /\ pc = "idle"
    /\ all = FALSE
    /\ services_df = <<>>
    /\ result = NoResult
    /\ issued = <<>>
    /\ mon = "Off"
    /\ prev = NoResult
    /\ changed = FALSE
    /\ printed = NoPrint
    /\ schema = <<>>
    /\ failed = "none"
    /\ answer = "none"
    /\ service_name = ""
    /\ pv_name = ""
    /\ attempts = 0
    /\ ran = <<>>
    /\ outcome = NoOutcome

\* No command runs: none was started, or the last one has ended.
Finished ==
    /\ pc = "idle"
    /\ \/ cmd = "none"
       \/ cmd = "ps"
       \/ cmd = "monitor" /\ mon = "Stopped"
       \/ cmd \in {"delete", "check_service", "wait_pv"} /\ outcome.kind # "none"

\* A command starts in a new process: nothing of the other commands is left.
ResetSimple ==
    /\ answer' = "none"
    /\ service_name' = ""
    /\ pv_name' = ""
    /\ attempts' = 0
    /\ ran' = <<>>
    /\ outcome' = NoOutcome

ResetListing ==
    /\ pc' = "idle"
    /\ all' = FALSE
    /\ services_df' = <<>>
    /\ result' = NoResult
    /\ issued' = <<>>
    /\ mon' = "Off"
    /\ prev' = NoResult
    /\ changed' = FALSE
    /\ printed' = NoPrint
    /\ schema' = <<>>
    /\ failed' = "none"

(***************************************************************************)
(* K8sCommands._get_services                                               *)
(***************************************************************************)

\* EntryFrame keeping the workload rows of the call before.
EntryFrameKept(df) ==
    [i \in 1..Len(df) |-> [name |-> df[i].name, image |-> df[i].image]]

\* services_df = polars.DataFrame() on entry
EntryFrame(df) == <<>>

\* Entry of _get_services(all).
Enter(a) ==
    /\ pc' = "deployment"
    /\ all' = a
    /\ services_df' = EntryFrame(services_df)
    /\ result' = NoResult
    /\ issued' = <<>>
    /\ schema' = <<>>
    /\ failed' = "none"

\* The columns of polars.concat([services_df, res_df], how="diagonal").
DiagonalColumns(cols, new) == cols \o SelectSeq(new, LAMBDA c : \A i \in 1..Len(cols) : cols[i] # c)

\* What the loop body leaves in services_df for one resource kind.
AfterWorkload(df, kubectl_res) ==
    IF kubectl_res # <<>> THEN Concat(df, ReadCsvWorkload(kubectl_res)) ELSE df

\* IsEmpty without the check: the empty table is taken for a populated one.
IsEmptyNever(df) == FALSE

\* IsEmpty with the test inverted.
IsEmptyInverted(df) == df # <<>>

\* services_df.is_empty()
IsEmpty(df) == df = <<>>

\* One iteration of "for resource in [deployment, statefulset]"; the check
\* services_df.is_empty() follows the last one.
QueryWorkload ==
    /\ pc \in {"deployment", "statefulset"}
    /\ LET df == AfterWorkload(services_df, cluster[pc])
       IN  /\ services_df' = df
           /\ issued' = Append(issued, pc)
           /\ IF pc = "deployment"
              THEN pc' = "statefulset" /\ result' = result
              ELSE IF IsEmpty(df)
                   THEN /\ pc' = "done"
                        /\ result' = [kind |-> "EmptyCluster", df |-> <<>>]
                   ELSE pc' = "pods" /\ result' = result
    /\ schema' = IF cluster[pc] # <<>>
                 THEN DiagonalColumns(schema, <<"name", "image">>)
                 ELSE schema
    /\ UNCHANGED <<cluster, cmd, all, mon, prev, changed, printed, failed, simple>>

\* JoinPods with how="outer": the pod rows without a workload row are kept.
JoinPodsOuter(df, kubectl_gtpo) ==
    LET pods == ReadCsvPods(kubectl_gtpo)
        extra == SelectSeq(pods, LAMBDA r : \A i \in 1..Len(df) : df[i].name # r.name)
    IN  WithPodColumns(
            LeftJoin(df, pods, {"running", "restarts"})
            \o [i \in 1..Len(extra) |->
                    [name |-> extra[i].name, image |-> Null,
                     running |-> Some(extra[i].running),
                     restarts |-> Some(extra[i].restarts)]])

\* kubectl_gtpo is not empty: join, replace, fill_null.
JoinPods(df, kubectl_gtpo) ==
    WithPodColumns(LeftJoin(df, ReadCsvPods(kubectl_gtpo), {"running", "restarts"}))

\* The pod query and the three branches on its output.
QueryPods ==
    /\ pc = "pods"
    /\ issued' = Append(issued, "pods")
    /\ IF cluster.pods # <<>>
       THEN /\ services_df' = JoinPods(services_df, cluster.pods)
            /\ pc' = "helm"
            /\ result' = result
       ELSE IF all
            THEN /\ services_df' = WithLiteralColumns(services_df)
                 /\ pc' = "helm"
                 /\ result' = result
            ELSE /\ services_df' = services_df
                 /\ pc' = "done"
                 /\ result' = [kind |-> "NoRunning", df |-> <<>>]
    /\ schema' = IF cluster.pods # <<>> \/ all
                 THEN schema \o <<"running", "restarts">>
                 ELSE schema
    /\ UNCHANGED <<cluster, cmd, all, mon, prev, changed, printed, failed, simple>>

\* JoinHelm without the final filter.
JoinHelmNoFilter(df, helm_out, a) ==
    Select(LeftJoin(df, ReadHelm(helm_out), {"version", "deployed", "status"}))

\* join helm_df, select the six columns, filter unless all.
JoinHelm(df, helm_out, a) ==
    LET joined == LeftJoin(df, ReadHelm(helm_out), {"version", "deployed", "status"})
        selected == Select(joined)
    IN  IF a THEN selected ELSE FilterRunning(selected)

\* The release query.  read_json of "[]" gives no column to rename or slice:
\* polars raises and the exception leaves _get_services.
QueryHelm ==
    /\ pc = "helm"
    /\ issued' = Append(issued, "helm")
    /\ pc' = "done"
    /\ IF cluster.helm = <<>>
       THEN /\ services_df' = services_df
            /\ result' = [kind |-> "Exception", df |-> <<>>]
       ELSE LET df == JoinHelm(services_df, cluster.helm, all)
            IN  /\ services_df' = df
                /\ result' = [kind |-> "ok", df |-> df]
    /\ schema' = IF cluster.helm = <<>> THEN schema ELSE SelectOrder
    /\ UNCHANGED <<cluster, cmd, all, mon, prev, changed, printed, failed, simple>>

\* _get_services as a function of what the four queries print and of all.
GetServices(c, a) ==
    LET w == AfterWorkload(AfterWorkload(EntryFrame(<<>>), c.deployment), c.statefulset)
    IN  IF IsEmpty(w)
        THEN [kind |-> "EmptyCluster", df |-> <<>>]
        ELSE IF c.pods = <<>> /\ ~a
        THEN [kind |-> "NoRunning", df |-> <<>>]
        ELSE IF c.helm = <<>>
        THEN [kind |-> "Exception", df |-> <<>>]
        ELSE [kind |-> "ok",
              df |-> JoinHelm(IF c.pods # <<>>
                              THEN JoinPods(w, c.pods)
                              ELSE WithLiteralColumns(w),
                              c.helm, a)]

(***************************************************************************)
(* K8sCommands.ps                                                          *)
(***************************************************************************)

\* ps(all, wide) calls _get_services(all).
Ps ==
    /\ Finished
    /\ \E a \in BOOLEAN : Enter(a)
    /\ cmd' = "ps"
    /\ mon' = "Off"
    /\ prev' = NoResult
    /\ changed' = FALSE
    /\ printed' = NoPrint
    /\ ResetSimple
    /\ UNCHANGED cluster

\* DropImage dropping the deployed column as well.
DropImageAndDeployed(df) ==
    [i \in 1..Len(df) |-> [c \in Columns \ {"image", "deployed"} |-> df[i][c]]]

\* services_df.drop_in_place("image")
DropImage(df) == [i \in 1..Len(df) |-> [c \in Columns \ {"image"} |-> df[i][c]]]

\* The columns left by drop_in_place(name).
DropColumn(cols, name) == SelectSeq(cols, LAMBDA c : c # name)

\* _get_services has returned or raised: ps prints the table, or the
\* exception leaves ps and nothing more is printed.
PsPrint ==
    /\ cmd = "ps"
    /\ pc = "done"
    /\ pc' = "idle"
    /\ IF result.kind = "ok"
       THEN \E wide \in BOOLEAN :
               printed' = [kind |-> "table",
                           wide |-> wide,
                           cols |-> IF wide THEN schema ELSE DropColumn(schema, "image"),
                           df |-> IF wide THEN result.df ELSE DropImage(result.df)]
       ELSE printed' = printed
    /\ UNCHANGED <<cluster, cmd, all, services_df, result, issued, mon, prev, changed>>
    /\ UNCHANGED <<schema, failed, simple>>

(***************************************************************************)
(* K8sCommands.monitor and the refresh loop of MonitorApp                  *)
(***************************************************************************)

\* monitor(all) calls _get_services(all) before MonitorApp exists.
Monitor ==
    /\ Finished
    /\ \E a \in BOOLEAN : Enter(a)
    /\ cmd' = "monitor"
    /\ mon' = "FirstPoll"
    /\ prev' = NoResult
    /\ changed' = FALSE
    /\ printed' = NoPrint
    /\ ResetSimple
    /\ UNCHANGED cluster

\* The state of the monitor once the first _get_services call has ended:
\* a returned table starts the application, typer.Exit or any other
\* exception leaves monitor() before MonitorApp is constructed.
AfterFirstPoll(kind) == IF kind = "ok" THEN "Idle" ELSE "Stopped"

MonitorFirstDone ==
    /\ cmd = "monitor"
    /\ mon = "FirstPoll"
    /\ pc = "done"
    /\ pc' = "idle"
    /\ mon' = AfterFirstPoll(result.kind)
    /\ UNCHANGED <<cluster, cmd, all, services_df, result, issued, prev, changed, printed>>
    /\ UNCHANGED <<schema, failed, simple>>

\* The interval has elapsed: the loop polls with the bound argument.
MonitorPoll ==
    /\ cmd = "monitor"
    /\ mon = "Idle"
    /\ pc = "idle"
    /\ prev' = IF changed THEN NoResult ELSE result
    /\ changed' = FALSE
    /\ Enter(all)
    /\ mon' = "Polling"
    /\ UNCHANGED <<cluster, cmd, printed, simple>>

\* The state of the loop once a later poll has ended.
AfterPoll(kind) == IF kind \in {"ok", "NoRunning"} THEN "Idle" ELSE "Stopped"

MonitorPolled ==
    /\ cmd = "monitor"
    /\ mon = "Polling"
    /\ pc = "done"
    /\ pc' = "idle"
    /\ mon' = AfterPoll(result.kind)
    /\ UNCHANGED <<cluster, cmd, all, services_df, result, issued, prev, changed, printed>>
    /\ UNCHANGED <<schema, failed, simple>>

\* The user quits; a poll in flight is abandoned with its frame.
MonitorQuit ==
    /\ cmd = "monitor"
    /\ mon \in {"Idle", "Polling"}
    /\ pc # "done"
    /\ pc' = "idle"
    /\ mon' = "Stopped"
    /\ services_df' = <<>>
    /\ issued' = <<>>
    /\ prev' = NoResult
    /\ changed' = FALSE
    /\ schema' = <<>>
    /\ UNCHANGED <<cluster, cmd, all, result, printed, failed, simple>>

\* pods without its i-th line.
Without(pods, i) == SubSeq(pods, 1, i - 1) \o SubSeq(pods, i + 1, Len(pods))

\* Between two polls a pod changes its phase or goes away.
PodEvent ==
    /\ cmd = "monitor"
    /\ mon = "Idle"
    /\ \E i \in 1..Len(cluster.pods) :
          \/ \E ph \in Phases \ {cluster.pods[i][2]} :
                cluster' = [cluster EXCEPT !.pods[i][2] = ph]
          \/ cluster' = [cluster EXCEPT !.pods = Without(@, i)]
    /\ changed' = TRUE
    /\ UNCHANGED <<cmd, pc, all, services_df, result, issued, mon, prev, printed>>
    /\ UNCHANGED <<schema, failed, simple>>

(***************************************************************************)
(* K8sCommands.delete                                                      *)
(***************************************************************************)

\* One command handed to shell.run_command, with what it printed.
Command(c, arg, out) == [cmd |-> c, arg |-> arg, out |-> out]

\* delete() is called on the object made for service_name.  Its first
\* statement asks typer.confirm and waits for the answer.
Delete ==
    /\ Finished
    /\ cmd' = "delete"
    /\ ResetListing
    /\ \E n \in Names : service_name' = n
    /\ pv_name' = ""
    /\ answer' = "none"
    /\ attempts' = 0
    /\ ran' = <<>>
    /\ outcome' = NoOutcome
    /\ UNCHANGED cluster

\* Confirmed taking any answer for a yes.
ConfirmedAlways(a) == TRUE

\* The value of typer.confirm(...) for the answer typed.
Confirmed(a) == a = "yes"

\* The user answers: a no raises typer.Abort, a yes runs helm delete.  What
\* helm then does to the cluster is helm's and is not followed here.
DeleteAnswered ==
    /\ cmd = "delete"
    /\ answer = "none"
    /\ \E a \in {"yes", "no"} :
          /\ answer' = a
          /\ IF ~Confirmed(a)
             THEN /\ outcome' = [kind |-> "Abort", value |-> ""]
                  /\ ran' = ran
             ELSE /\ ran' = Append(ran, Command("helm delete", service_name, ""))
                  /\ outcome' = [kind |-> "returned", value |-> ""]
    /\ UNCHANGED <<cluster, cmd, listing, service_name, pv_name, attempts>>

(***************************************************************************)
(* check_service                                                           *)
(***************************************************************************)

\* ProbeKinds the other way round.
ProbeKindsSwapped == <<"deployment", "statefulset">>

\* for t in ["statefulset", "deployment"]
ProbeKinds == <<"statefulset", "deployment">>

\* What kubectl get <t> -o name <service_name> --ignore-not-found prints:
\* the full name of the resource and a newline, or nothing.
ProbeOutput(t, name) ==
    IF \E i \in 1..Len(cluster[t]) : cluster[t][i][1] = name
    THEN t \o ".apps/" \o name \o "\n"
    ELSE ""

IsSpace(ch) == ch \in {" ", "\n", "\t"}

RECURSIVE LStrip(_)
LStrip(str) ==
    IF Len(str) > 0 /\ IsSpace(SubSeq(str, 1, 1))
    THEN LStrip(SubSeq(str, 2, Len(str)))
    ELSE str

RECURSIVE RStrip(_)
RStrip(str) ==
    IF Len(str) > 0 /\ IsSpace(SubSeq(str, Len(str), Len(str)))
    THEN RStrip(SubSeq(str, 1, Len(str) - 1))
    ELSE str

\* str(result).strip()
Strip(str) == LStrip(RStrip(str))

\* The truth value of a string: "if result:"
Truthy(str) == str # ""

\* check_service(service_name, namespace) is called.
CheckService ==
    /\ Finished
    /\ cmd' = "check_service"
    /\ ResetListing
    /\ \E n \in Names : service_name' = n
    /\ pv_name' = ""
    /\ answer' = "none"
    /\ attempts' = 0
    /\ ran' = <<>>
    /\ outcome' = NoOutcome
    /\ UNCHANGED cluster

\* One turn of the loop: the probe of the next kind, and the break with the
\* return that follows it when the probe printed something.
CheckProbe ==
    /\ cmd = "check_service"
    /\ outcome.kind = "none"
    /\ Len(ran) < Len(ProbeKinds)
    /\ LET t == ProbeKinds[Len(ran) + 1]
           out == ProbeOutput(t, service_name)
       IN  /\ ran' = Append(ran, Command("kubectl get " \o t, service_name, out))
           /\ outcome' = IF Truthy(out)
                         THEN [kind |-> "returned", value |-> Strip(out)]
                         ELSE outcome
    /\ UNCHANGED <<cluster, cmd, listing, answer, service_name, pv_name, attempts>>

\* The else of the for: no probe broke out of the loop; typer.Exit(1).
CheckExhausted ==
    /\ cmd = "check_service"
    /\ outcome.kind = "none"
    /\ Len(ran) = Len(ProbeKinds)
    /\ outcome' = [kind |-> "Exit1", value |-> ""]
    /\ UNCHANGED <<cluster, cmd, listing, answer, service_name, pv_name, attempts, ran>>

Next ==
    \/ Delete
    \/ DeleteAnswered
    \/ CheckService
    \/ CheckProbe
    \/ CheckExhausted
    \/ Ps
    \/ QueryWorkload
    \/ QueryPods
    \/ QueryHelm
    \/ PsPrint
    \/ Monitor
    \/ MonitorFirstDone
    \/ MonitorPoll
    \/ MonitorPolled
    \/ MonitorQuit
    \/ PodEvent

Spec == Init /\ [][Next]_vars

(***************************************************************************)
(* DevCommands.wait_pv                                                     *)
(***************************************************************************)

MaxAttempts == 3

PVs == {"IOC:A", "IOC:B"}

\* What docker exec <ioc_name> bash -c "caget <pv_name>" may print: the PV
\* with its value, caget's complaint, docker's complaint, or nothing.
CagetOutputs(pv) ==
    { pv \o " 1.5",
      "Channel connect timed out: '" \o pv \o "' not found.",
      "Error: No such container: ioc",
      "" }

\* str(result).startswith(pv_name)
StartsWith(str, prefix) ==
    /\ Len(prefix) <= Len(str)
    /\ SubSeq(str, 1, Len(prefix)) = prefix

\* InRange letting the loop take one turn more.
InRangeInclusive(i, n) == i <= n

\* for i in range(attempts): the loop takes turn i, counted from 0.
InRange(i, n) == i < n

\* wait_pv runs against a local container: there is no cluster.
InitWaitPv ==
    /\ Init
    /\ cluster.deployment = <<>>
    /\ cluster.statefulset = <<>>
    /\ cluster.pods = <<>>
    /\ cluster.helm = <<>>

\* wait_pv(pv_name, ioc_name, attempts) is called.
WaitPv ==
    /\ Finished
    /\ cmd' = "wait_pv"
    /\ ResetListing
    /\ \E pv \in PVs : pv_name' = pv
    /\ \E n \in 0..MaxAttempts : attempts' = n
    /\ service_name' = ""
    /\ answer' = "none"
    /\ ran' = <<>>
    /\ outcome' = NoOutcome
    /\ UNCHANGED cluster

\* One turn of the loop: caget, then the break and the return after the
\* loop, or the sleep of a second.
Caget ==
    /\ cmd = "wait_pv"
    /\ outcome.kind = "none"
    /\ InRange(Len(ran), attempts)
    /\ \E out \in CagetOutputs(pv_name) :
          /\ ran' = Append(ran, Command("caget", pv_name, out))
          /\ outcome' = IF StartsWith(out, pv_name)
                        THEN [kind |-> "returned", value |-> ""]
                        ELSE outcome
    /\ UNCHANGED <<cluster, cmd, listing, answer, service_name, pv_name, attempts>>

\* The else of the for: the range is used up without a break; typer.Exit(1).
WaitPvExhausted ==
    /\ cmd = "wait_pv"
    /\ outcome.kind = "none"
    /\ ~InRange(Len(ran), attempts)
    /\ outcome' = [kind |-> "Exit1", value |-> ""]
    /\ UNCHANGED <<cluster, cmd, listing, answer, service_name, pv_name, attempts, ran>>

NextWaitPv ==
    \/ WaitPv
    \/ Caget
    \/ WaitPvExhausted

SpecWaitPv == InitWaitPv /\ [][NextWaitPv]_vars

(***************************************************************************)
(* Transport failures of the external queries                              *)
(***************************************************************************)

\* OnRaise handing back the frame built so far as a result.
OnRaiseSwallowed(df) == [kind |-> "ok", df |-> df]

\* _get_services has no handler around its run_command calls: what
\* run_command raises leaves the call, and the frame built so far is lost.
OnRaise(df) == [kind |-> "TransportError", df |-> <<>>]

\* The command of the query at hand fails (cluster unreachable, bad
\* credentials): run_command raises instead of returning the output.
QueryFails ==
    /\ pc \in {"deployment", "statefulset", "pods", "helm"}
    /\ issued' = Append(issued, pc)
    /\ failed' = pc
    /\ result' = OnRaise(services_df)
    /\ pc' = "done"
    /\ UNCHANGED <<cluster, cmd, all, services_df, mon, prev, changed, printed>>
    /\ UNCHANGED <<schema, simple>>

NextFault ==
    \/ Next
    \/ QueryFails

SpecFault == Init /\ [][NextFault]_vars

(***************************************************************************)
(* Properties of _get_services                                             *)
(***************************************************************************)

\* The workload lines of both kinds, the pod lines, the release objects.
W == cluster.deployment \o cluster.statefulset
P == cluster.pods
R == cluster.helm

WNames == {W[i][1] : i \in 1..Len(W)}
ForeignPod == \E i \in 1..Len(P) : P[i][1] \notin WNames
ForeignRelease == \E i \in 1..Len(R) : R[i].name \notin WNames

\* The running call has ended, and has returned a table.
Ended == pc = "done"
Returned == Ended /\ result.kind = "ok"

\* C1: every returned record has the name of a workload line, and pod lines
\* or releases of other names raise nothing: with workload lines, releases
\* and (pod lines or all) the call returns a table.
C1_NamesDrawnFromWorkload ==
    Ended =>
        /\ result.kind = "ok" =>
              \A i \in 1..Len(result.df) : result.df[i].name \in WNames
        /\ (W # <<>> /\ R # <<>> /\ (P # <<>> \/ all)) => result.kind = "ok"

C1_Witness ==
    /\ Returned
    /\ result.df # <<>>
    /\ ForeignPod
    /\ ForeignRelease

\* Every workload name is returned not running and with no restarts.
AllIdle(df) ==
    /\ {df[i].name : i \in 1..Len(df)} = WNames
    /\ \A i \in 1..Len(df) : df[i].running = FALSE /\ df[i].restarts = 0

\* C2: with no pod line, _get_services(all=True) returns every workload name
\* with running=false and restarts=0, and _get_services(all=False) ends with
\* NoRunningServicesError.  (Stated for a populated cluster: with no workload
\* line the call ends with EmptyClusterError before the pod query, see C3.)
C2_Original ==
    (Ended /\ W # <<>> /\ P = <<>>) =>
        IF all
        THEN result.kind = "ok" /\ AllIdle(result.df)
        ELSE result.kind = "NoRunning"

\* C3: with no workload line of either kind the call ends with
\* EmptyClusterError and returns no table, whatever all is.
C3_EmptyCluster ==
    (Ended /\ W = <<>>) => result = [kind |-> "EmptyCluster", df |-> <<>>]

C3_Witness ==
    /\ Ended
    /\ W = <<>>
    /\ all
    /\ P # <<>>
    /\ R # <<>>
    /\ result.kind = "EmptyCluster"

\* The table _get_services(all=True) returns on the same query output.
WithAll == GetServices(cluster, TRUE)

SixColumns(df) == \A i \in 1..Len(df) : DOMAIN df[i] = Columns

\* C4 as stated: wherever _get_services(all=True) returns a table,
\* _get_services(all=False) returns that table filtered to running = true.
C4_Original ==
    (Ended /\ ~all /\ WithAll.kind = "ok") =>
        result = [kind |-> "ok", df |-> FilterRunning(WithAll.df)]

\* C4 amended: the filtering law holds when the pod query prints lines; when
\* it prints none, _get_services(all=False) ends with NoRunningServicesError
\* although _get_services(all=True) returns a table.
C4_FilteringLaw ==
    (Ended /\ ~all /\ WithAll.kind = "ok") =>
        IF P # <<>>
        THEN /\ result = [kind |-> "ok", df |-> FilterRunning(WithAll.df)]
             /\ SixColumns(result.df)
             /\ SixColumns(WithAll.df)
        ELSE result.kind = "NoRunning"

C4_Witness ==
    /\ Returned
    /\ ~all
    /\ result.df # <<>>
    /\ Len(result.df) < Len(WithAll.df)

\* C5: no two records of a returned table have the same name.
C5_Original ==
    Returned =>
        \A i, j \in 1..Len(result.df) :
            result.df[i].name = result.df[j].name => i = j

NoPodRunning == \A i \in 1..Len(P) : P[i][2] # "Running"

\* C6: _get_services(all=False) never returns an empty table: with no pod in
\* phase Running it ends with NoRunningServicesError, and ps is not handed
\* an empty table.  (Stated for a populated cluster with a release, where the
\* call reaches its filter.)
C6_Original ==
    /\ (Ended /\ ~all /\ result.kind = "ok") => result.df # <<>>
    /\ (Ended /\ ~all /\ W # <<>> /\ R # <<>> /\ NoPodRunning) =>
          result.kind = "NoRunning"
    /\ (cmd = "ps" /\ ~all /\ printed.kind = "table") => printed.df # <<>>

\* The record of the reference left join for one workload line, where at
\* most one pod line and one release have its name.
Reference(w) ==
    LET pm == {i \in 1..Len(P) : P[i][1] = w[1]}
        rm == {i \in 1..Len(R) : R[i].name = w[1]}
        p == P[CHOOSE i \in pm : TRUE]
        r == R[CHOOSE i \in rm : TRUE]
    IN  [name |-> w[1],
         image |-> w[2],
         running |-> IF pm = {} THEN FALSE ELSE p[2] = "Running",
         restarts |-> IF pm = {} THEN 0 ELSE p[3],
         version |-> IF rm = {} THEN Null ELSE Some(r.app_version),
         deployed |-> IF rm = {} THEN Null ELSE Some(SubSeq(r.updated, 1, SliceLength))]

\* C7: with workload lines and pod lines, _get_services(all=True) returns the
\* reference left join, one record per workload line, also when there is no
\* release.  (Stated where no two pod lines have the same name, so that "the
\* matching pod row" is one row.)
C7_Original ==
    (Ended /\ all /\ W # <<>> /\ P # <<>> /\ UniqueFirst(P)) =>
        result = [kind |-> "ok", df |-> [i \in 1..Len(W) |-> Reference(W[i])]]

\* C8: a returned record with running = true has a pod line of its name in
\* phase Running; a record all of whose pod lines are in another phase, or
\* that has none, has running = false.
C8_RunningCorroborated ==
    Returned =>
        \A i \in 1..Len(result.df) :
            LET rec == result.df[i]
                up == \E k \in 1..Len(P) : P[k][1] = rec.name /\ P[k][2] = "Running"
            IN  /\ rec.running \in BOOLEAN
                /\ rec.running => up
                /\ ~up => rec.running = FALSE

C8_Witness ==
    /\ Returned
    /\ \E i, j \in 1..Len(result.df) :
          /\ result.df[i].running = TRUE
          /\ result.df[j].running = FALSE
          /\ \E k \in 1..Len(P) : P[k][1] = result.df[j].name

\* C9: a poll of the monitor over unchanged query output ends as the poll
\* before it with the same argument did: the same records in the same order,
\* or the same error.
C9_Idempotent ==
    (cmd = "monitor" /\ mon = "Polling" /\ Ended /\ prev.kind # "none") =>
        result = prev

C9_Witness ==
    /\ cmd = "monitor"
    /\ mon = "Polling"
    /\ Ended
    /\ prev.kind = "ok"
    /\ Len(prev.df) >= 2
    /\ result = prev

\* C10: in the monitor a poll that ends with NoRunningServicesError leaves the
\* loop alive with another poll to come, and a poll that ends with
\* EmptyClusterError stops it, the first poll as every later one.
C10_Original ==
    [][(cmd = "monitor" /\ Ended /\ pc' = "idle") =>
          /\ result.kind = "NoRunning" => mon' = "Idle"
          /\ result.kind = "EmptyCluster" => mon' = "Stopped"]_vars

(***************************************************************************)
(* Order of the external queries                                           *)
(***************************************************************************)

QueryOrder == <<"deployment", "statefulset", "pods", "helm">>

IsPrefix(s, t) == Len(s) <= Len(t) /\ s = SubSeq(t, 1, Len(s))

\* C13: one call issues its queries in the order deployment, statefulset,
\* pods, helm, each at most once; with no workload line it issues neither
\* the pod nor the release query, and with no pod line and all=False it does
\* not issue the release query.
C13_QueryOrder ==
    /\ IsPrefix(issued, QueryOrder)
    /\ Ended =>
          issued = IF W = <<>>
                   THEN SubSeq(QueryOrder, 1, 2)
                   ELSE IF P = <<>> /\ ~all
                   THEN SubSeq(QueryOrder, 1, 3)
                   ELSE QueryOrder

C13_Witness ==
    /\ Ended
    /\ W # <<>>
    /\ P = <<>>
    /\ R # <<>>
    /\ ~all
    /\ issued = <<"deployment", "statefulset", "pods">>

----------------------------------------------------------------------------
\* Columns of the snapshot and of the table ps prints

ColumnOrder == <<"name", "version", "running", "restarts", "deployed", "image">>

Restrict(row, cols) == [c \in {cols[i] : i \in 1..Len(cols)} |-> row[c]]

PrintedColumns == IF printed.wide THEN ColumnOrder ELSE SubSeq(ColumnOrder, 1, 5)

\* C12: a returned snapshot has exactly the columns name, version, running,
\* restarts, deployed, image, in that order.  The table ps prints has the same
\* rows in the same order; without wide it lacks only the image column, with
\* wide it lacks nothing.
C12_Columns ==
    /\ Returned => /\ schema = ColumnOrder
                   /\ SixColumns(result.df)
    /\ printed.kind = "table" =>
          /\ printed.cols = PrintedColumns
          /\ Len(printed.df) = Len(result.df)
          /\ \A i \in 1..Len(result.df) :
                printed.df[i] = Restrict(result.df[i], PrintedColumns)

C12_Witness ==
    /\ printed.kind = "table"
    /\ ~printed.wide
    /\ Len(printed.df) = 2
    /\ printed.df[1].name # printed.df[2].name

----------------------------------------------------------------------------
\* No partial result

Errors == {"EmptyCluster", "NoRunning", "Exception", "TransportError"}

\* C11: a call of _get_services that has ended has either returned a table
\* built from all of the workload, pod and release queries, or ended in an
\* error with no table.  When one of the queries failed, the call ended in
\* that failure whatever had been joined before, and ps printed nothing.
C11_NoPartialResult ==
    /\ Ended =>
          \/ /\ result.kind = "ok"
             /\ failed = "none"
             /\ issued = QueryOrder
             /\ schema = ColumnOrder
             /\ SixColumns(result.df)
          \/ /\ result.kind \in Errors
             /\ result.df = <<>>
    /\ (Ended /\ failed # "none") =>
          /\ result = [kind |-> "TransportError", df |-> <<>>]
          /\ issued = SubSeq(QueryOrder, 1, Len(issued))
          /\ issued[Len(issued)] = failed
    /\ (cmd = "ps" /\ pc = "idle" /\ failed # "none") =>
          /\ result.kind = "TransportError"
          /\ printed = NoPrint
    /\ (cmd = "monitor" /\ pc = "idle" /\ failed # "none") => mon \in {"Stopped", "Off"}

C11_Witness ==
    /\ cmd = "ps"
    /\ pc = "idle"
    /\ failed = "helm"
    /\ Len(services_df) = 2
    /\ schema = <<"name", "image", "running", "restarts">>
    /\ printed = NoPrint

----------------------------------------------------------------------------
\* delete asks first

HelmDelete == <<Command("helm delete", service_name, "")>>

\* C14: delete runs helm delete only once the user has answered yes; while
\* the question is open nothing has run, and after a no the command has
\* ended in typer.Abort with nothing run.
C14_ConfirmFirst ==
    cmd = "delete" =>
       /\ ran # <<>> => (answer = "yes" /\ ran = HelmDelete)
       /\ answer = "none" => (ran = <<>> /\ outcome.kind = "none")
       /\ answer = "no" => (ran = <<>> /\ outcome.kind = "Abort")
       /\ answer = "yes" => (ran = HelmDelete /\ outcome.kind = "returned")

C14_Witness ==
    /\ cmd = "delete"
    /\ answer = "no"
    /\ outcome.kind = "Abort"
    /\ ran = <<>>
    /\ cluster.helm # <<>>

----------------------------------------------------------------------------
\* check_service probes statefulset, then deployment

Probed == [i \in 1..Len(ran) |-> ran[i].cmd]

\* C15: check_service probes the statefulset kind, then the deployment kind;
\* it returns the stripped output of the first probe that printed something
\* and probes no further; it ends in exit code 1 exactly when both probes
\* printed nothing.
C15_ProbeOrder ==
    cmd = "check_service" =>
       /\ IsPrefix(Probed, <<"kubectl get statefulset", "kubectl get deployment">>)
       /\ \A i \in 1..(Len(ran) - 1) : ran[i].out = ""
       /\ outcome.kind \in {"none", "returned", "Exit1"}
       /\ outcome.kind = "returned" <=> (ran # <<>> /\ ran[Len(ran)].out # "")
       /\ outcome.kind = "returned" =>
             /\ outcome.value \in {"statefulset.apps/" \o service_name,
                                   "deployment.apps/" \o service_name}
             /\ ran[Len(ran)].out = outcome.value \o "\n"
       /\ outcome.kind = "Exit1" =>
             (Len(ran) = 2 /\ ran[1].out = "" /\ ran[2].out = "")
       /\ (Len(ran) = 2 /\ ran[1].out = "" /\ ran[2].out = "") =>
             (outcome.kind = "Exit1" \/ ENABLED CheckExhausted)

C15_Witness ==
    /\ cmd = "check_service"
    /\ outcome = [kind |-> "returned", value |-> "statefulset.apps/svcA"]
    /\ Len(ran) = 1
    /\ \E i \in 1..Len(cluster.deployment) : cluster.deployment[i][1] = "svcA"

----------------------------------------------------------------------------
\* wait_pv probes at most attempts times

Succeeded(i) == StartsWith(ran[i].out, pv_name)

\* C16: wait_pv issues at most attempts caget probes and, until it has
\* ended, can always take its next step.  It returns exactly when a probe
\* printed output starting with the PV name, and that probe is its last; it
\* ends in exit code 1 exactly when attempts probes were issued and none
\* succeeded, which with attempts = 0 is at once.
C16_BoundedWait ==
    cmd = "wait_pv" =>
       /\ Len(ran) <= attempts
       /\ \A i \in 1..(Len(ran) - 1) : ~Succeeded(i)
       /\ outcome.kind \in {"none", "returned", "Exit1"}
       /\ outcome.kind = "none" => (ENABLED Caget \/ ENABLED WaitPvExhausted)
       /\ outcome.kind = "returned" <=> (ran # <<>> /\ Succeeded(Len(ran)))
       /\ outcome.kind = "Exit1" =>
             (Len(ran) = attempts /\ \A i \in 1..Len(ran) : ~Succeeded(i))
       /\ (Len(ran) = attempts /\ \A i \in 1..Len(ran) : ~Succeeded(i)) =>
             (outcome.kind = "Exit1" \/ ENABLED WaitPvExhausted)

C16_Witness ==
    /\ cmd = "wait_pv"
    /\ attempts = 3
    /\ Len(ran) = 2
    /\ ran[1].out = ""
    /\ outcome.kind = "returned"

\* wait_pv called with attempts = 0 ends in exit code 1 with no probe.
C16_WitnessNoAttempt ==
    /\ cmd = "wait_pv"
    /\ attempts = 0
    /\ ran = <<>>
    /\ outcome.kind = "Exit1"

====
